---- MODULE Spec2Model ----
(***************************************************************************)
(* Vault view of the password manager (App.vue): the reactive state of the *)
(* component, its asynchronous operations against the store reached        *)
(* through invoke(), and the user's events on the template.                *)
(*                                                                         *)
(* Strings that the code inspects (entry fields, the search query) are     *)
(* sequences of one-character strings; the error text is a TLA+ string     *)
(* built by concatenation.  An optional value (null / absent) is a set     *)
(* with at most one element.                                               *)
(***************************************************************************)
EXTENDS Naturals, Sequences, FiniteSets, TLC

VARIABLES
    mounted,            \* onMounted has run
    passwords,          \* ref passwords: the local collection
    showAddForm,        \* ref showAddForm: the add-workflow is open
    searchQuery,        \* ref searchQuery
    selectedPassword,   \* ref selectedPassword: None or Some(entry)
    errorMessage,       \* ref errorMessage: "" or one message
    newPassword,        \* ref newPassword: the fields of the current draft object
    draftRef,           \* identity of the object newPassword.value holds
    tasks,              \* the suspended async functions, by operation id
    nextId,             \* operations issued so far
    nextSeq,            \* get_passwords requests issued so far
    store,              \* the store's contents
    lastLoad,           \* history: the get_passwords call that resolved last
    maxSeqDone,         \* history: highest request number among resolved loads
    listed,             \* history: every collection get_passwords has returned
    deletedSince,       \* history: names whose delete resolved since the last
                        \* resolved load
    lastEvent           \* history: the continuation that ran last, or the
                        \* confirmation that was declined since

view == <<mounted, passwords, showAddForm, searchQuery, selectedPassword,
          errorMessage, newPassword, draftRef>>
async == <<tasks, nextId, nextSeq>>
hist == <<lastLoad, maxSeqDone, listed, deletedSince>>
vars == <<view, async, store, hist, lastEvent>>

-----------------------------------------------------------------------------
(* Bounds *)

MaxOps == 3

-----------------------------------------------------------------------------
(* Values *)

None == {}
Some(x) == {x}
TheValue(o) == CHOOSE x \in o : TRUE

EmptyStr == << >>

Chars == {"a", "A", "b", "B", "u", "p", "g", "w", "n"}

toLowerCaseChar(c) ==
    CASE c = "A" -> "a"
      [] c = "B" -> "b"
      [] OTHER -> c

\* The draft as constructed and as reset.
EmptyEntry ==
    [name |-> EmptyStr, username |-> EmptyStr, password |-> EmptyStr,
     url |-> EmptyStr, notes |-> EmptyStr]

\* What the user may type into each field of the add form.
FieldValues(f) ==
    CASE f = "name" -> {<<"a">>}
      [] f = "username" -> {<<"u">>}
      [] f = "password" -> {<<"p">>}
      [] f = "url" -> {<<"w">>}
      [] f = "notes" -> {<<"n">>}

Fields == {"name", "username", "password", "url", "notes"}

\* The inputs of the add form marked required; the behaviours of Spec type
\* into these only.
RequiredFields == {"name", "username", "password"}

\* What the user may type into the search input.
Queries ==
    {EmptyStr, <<"a">>, <<"A">>, <<"b">>, <<"B">>, <<"u">>, <<"n">>,
     <<"a", "b">>, <<"A", "B">>, <<"a", "B">>, <<"b", "a">>}

\* Passwords the generator may return (one of them is also what the user may
\* type), and failure descriptions of the store.
Generated == {<<"g">>, <<"p">>}
Details == {"e1"}

StoredA ==
    [name |-> <<"a">>, username |-> <<"u">>, password |-> <<"p">>,
     url |-> None, notes |-> None]

StoredB ==
    [name |-> <<"B">>, username |-> <<"u">>, password |-> <<"g">>,
     url |-> Some(<<"w">>), notes |-> None]

\* What the store may hold when the view is constructed.
InitialStores == {<< >>, <<StoredA>>, <<StoredA, StoredB>>}

-----------------------------------------------------------------------------
(* Error texts: the template strings of the catch blocks, `<prefix>: ${error}`, *)
(* with the prefix of each operation written in ASCII.                       *)

LoadError(error) == "load failed: " \o error
AddError(error) == "add failed: " \o error
DeleteError(error) == "delete failed: " \o error
GenerateError(error) == "generate failed: " \o error

-----------------------------------------------------------------------------
(* Pure helpers *)

RECURSIVE toLowerCase(_)
toLowerCase(s) ==
    IF s = << >> THEN << >>
    ELSE <<toLowerCaseChar(Head(s))>> \o toLowerCase(Tail(s))

includes(s, q) ==
    \E i \in 1..(Len(s) - Len(q) + 1) : SubSeq(s, i, i + Len(q) - 1) = q

\* Mutant: the notes are searched too.
MatchesWithNotes(p, query) ==
    \/ includes(toLowerCase(p.name), query)
    \/ includes(toLowerCase(p.username), query)
    \/ (p.url # None /\ TheValue(p.url) # EmptyStr
        /\ includes(toLowerCase(TheValue(p.url)), query))
    \/ (p.notes # None /\ TheValue(p.notes) # EmptyStr
        /\ includes(toLowerCase(TheValue(p.notes)), query))

Matches(p, query) ==
    \/ includes(toLowerCase(p.name), query)
    \/ includes(toLowerCase(p.username), query)
    \/ (p.url # None /\ TheValue(p.url) # EmptyStr
        /\ includes(toLowerCase(TheValue(p.url)), query))

\* Mutant: the entries are compared with the query as typed.
FilteredAsTyped(c, q) ==
    IF q = EmptyStr THEN c
    ELSE SelectSeq(c, LAMBDA p : Matches(p, q))

\* getFilteredPasswords() over the collection c with the search query q.
Filtered(c, q) ==
    IF q = EmptyStr THEN c
    ELSE SelectSeq(c, LAMBDA p : Matches(p, toLowerCase(q)))

getFilteredPasswords == Filtered(passwords, searchQuery)

\* Mutant: the field is sent as it is, empty or not.
OrNullAsTyped(s) == Some(s)

OrNull(s) == IF s = EmptyStr THEN None ELSE Some(s)

AddArgs(d) ==
    [name |-> d.name, username |-> d.username, password |-> d.password,
     url |-> OrNull(d.url), notes |-> OrNull(d.notes)]

-----------------------------------------------------------------------------
(* The store: the backend behind invoke().  It keeps entries by name, answers *)
(* the requests it has received in any order, and may fail any of them.      *)

HasName(s, n) == \E i \in 1..Len(s) : s[i].name = n

StoreAfterAdd(s, e) ==
    IF HasName(s, e.name)
    THEN [i \in 1..Len(s) |-> IF s[i].name = e.name THEN e ELSE s[i]]
    ELSE Append(s, e)

StoreAfterDelete(s, n) == SelectSeq(s, LAMBDA e : e.name # n)

-----------------------------------------------------------------------------
(* Async plumbing *)

\* A suspended async function: the operation, its locals (name of
\* deletePassword, ref the object generatePassword assigns into), and the
\* invoke() it awaits: command, arguments, request number of a get_passwords,
\* and the reply once the store has answered.  readd is history: the store
\* has added an entry called name after it deleted name for this operation.
Call(op, name, ref, cmd, args, seq) ==
    [op |-> op, name |-> name, ref |-> ref, cmd |-> cmd, args |-> args,
     seq |-> seq, stage |-> "sent", ok |-> TRUE, val |-> << >>,
     readd |-> FALSE]

Live == DOMAIN tasks

Without(id) == [i \in Live \ {id} |-> tasks[i]]

With(id, t) == [i \in Live \cup {id} |-> IF i = id THEN t ELSE tasks[i]]

Replied(id, cmd, ok) ==
    /\ id \in Live
    /\ tasks[id].cmd = cmd
    /\ tasks[id].stage = "replied"
    /\ tasks[id].ok = ok

Init ==
    /\ mounted = FALSE
    /\ passwords = << >>
    /\ showAddForm = FALSE
    /\ searchQuery = EmptyStr
    /\ selectedPassword = None
    /\ errorMessage = ""
    /\ newPassword = EmptyEntry
    /\ draftRef = 0
    /\ tasks = << >>
    /\ nextId = 0
    /\ nextSeq = 0
    /\ store \in InitialStores
    /\ lastLoad = None
    /\ maxSeqDone = 0
    /\ listed = {}
    /\ deletedSince = {}
    /\ lastEvent = [op |-> "init", id |-> 0, name |-> EmptyStr, hit |-> FALSE]

-----------------------------------------------------------------------------
(* Steps of the component *)

\* The selection is the entry called name.
Selected(name) ==
    selectedPassword # None /\ TheValue(selectedPassword).name = name

\* History of a continuation: which one, of which operation, the name the
\* operation was called with, and whether that name was selected as it ran.
Event(op, id) ==
    lastEvent' = [op |-> op, id |-> id, name |-> tasks[id].name,
                  hit |-> Selected(tasks[id].name)]

CanIssue == mounted /\ nextId < MaxOps

\* loadPasswords() up to its await: one get_passwords request leaves.
IssueList(id, op, name) ==
    /\ tasks' = With(id, Call(op, name, 0, "get_passwords", << >>, nextSeq + 1))
    /\ nextSeq' = nextSeq + 1

\* onMounted: the first loadPasswords().
Mount ==
    /\ ~mounted
    /\ mounted' = TRUE
    /\ IssueList(nextId + 1, "load", EmptyStr)
    /\ nextId' = nextId + 1
    /\ UNCHANGED lastEvent
    /\ UNCHANGED <<passwords, showAddForm, searchQuery, selectedPassword,
                   errorMessage, newPassword, draftRef, store, hist>>

\* Mutant: a finished delete clears whatever is selected.
SelectionAfterDeleteAny(name) == None

\* The selection once deletePassword(name) is past its await loadPasswords().
SelectionAfterDelete(name) ==
    IF Selected(name) THEN None
    ELSE selectedPassword

\* Mutant: the selection is looked at only when the reload resolved.
SelectionAfterLoadIfResolved(t) ==
    IF t.op = "delete" /\ t.ok THEN SelectionAfterDelete(t.name)
    ELSE selectedPassword

\* What runs after loadPasswords() returns to the operation that awaited it.
SelectionAfterLoad(t) ==
    IF t.op = "delete" THEN SelectionAfterDelete(t.name)
    ELSE selectedPassword

\* Mutant: a response is applied only when no later request has resolved.
PasswordsAfterLoadNewestOnly(t) ==
    IF t.seq > maxSeqDone THEN t.val ELSE passwords

\* The collection after the get_passwords of t resolved.
PasswordsAfterLoad(t) == t.val

\* loadPasswords(): get_passwords resolved.
LoadResolved(id) ==
    /\ Replied(id, "get_passwords", TRUE)
    /\ passwords' = PasswordsAfterLoad(tasks[id])
    /\ selectedPassword' = SelectionAfterLoad(tasks[id])
    /\ tasks' = Without(id)
    /\ lastLoad' = Some([seq |-> tasks[id].seq, val |-> tasks[id].val])
    /\ maxSeqDone' = IF tasks[id].seq > maxSeqDone THEN tasks[id].seq ELSE maxSeqDone
    /\ deletedSince' = {}
    /\ Event("LoadResolved", id)
    /\ UNCHANGED <<mounted, showAddForm, searchQuery, errorMessage, newPassword,
                   draftRef, nextId, nextSeq, store, listed>>

\* Mutant: a failed load empties the collection.
LoadRejectedClears(id) ==
    /\ Replied(id, "get_passwords", FALSE)
    /\ errorMessage' = LoadError(tasks[id].val)
    /\ passwords' = << >>
    /\ selectedPassword' = SelectionAfterLoad(tasks[id])
    /\ tasks' = Without(id)
    /\ Event("LoadRejected", id)
    /\ UNCHANGED <<mounted, showAddForm, searchQuery, newPassword,
                   draftRef, nextId, nextSeq, store, hist>>

\* loadPasswords(): get_passwords rejected.
LoadRejected(id) ==
    /\ Replied(id, "get_passwords", FALSE)
    /\ errorMessage' = LoadError(tasks[id].val)
    /\ selectedPassword' = SelectionAfterLoad(tasks[id])
    /\ tasks' = Without(id)
    /\ Event("LoadRejected", id)
    /\ UNCHANGED <<mounted, passwords, showAddForm, searchQuery, newPassword,
                   draftRef, nextId, nextSeq, store, hist>>

\* The add button of the top controls.
OpenAddForm ==
    /\ mounted
    /\ showAddForm' = TRUE
    /\ UNCHANGED lastEvent
    /\ UNCHANGED <<mounted, passwords, searchQuery, selectedPassword, errorMessage,
                   newPassword, draftRef, async, store, hist>>

\* The cancel button of the add form.
CancelAddForm ==
    /\ showAddForm
    /\ showAddForm' = FALSE
    /\ UNCHANGED lastEvent
    /\ UNCHANGED <<mounted, passwords, searchQuery, selectedPassword, errorMessage,
                   newPassword, draftRef, async, store, hist>>

\* An input of the add form bound to a draft field by v-model.
EditDraft(f, v) ==
    /\ showAddForm
    /\ newPassword' = [newPassword EXCEPT ![f] = v]
    /\ UNCHANGED lastEvent
    /\ UNCHANGED <<mounted, passwords, showAddForm, searchQuery, selectedPassword,
                   errorMessage, draftRef, async, store, hist>>

\* The search input.
SetSearchQuery(q) ==
    /\ mounted
    /\ searchQuery' = q
    /\ UNCHANGED lastEvent
    /\ UNCHANGED <<mounted, passwords, showAddForm, selectedPassword, errorMessage,
                   newPassword, draftRef, async, store, hist>>

\* A click on an item of the rendered list.
SelectPassword(i) ==
    /\ i \in 1..Len(getFilteredPasswords)
    /\ selectedPassword' = Some(getFilteredPasswords[i])
    /\ UNCHANGED lastEvent
    /\ UNCHANGED <<mounted, passwords, showAddForm, searchQuery, errorMessage,
                   newPassword, draftRef, async, store, hist>>

\* The dismiss button of the error banner.
DismissError ==
    /\ errorMessage # ""
    /\ errorMessage' = ""
    /\ UNCHANGED lastEvent
    /\ UNCHANGED <<mounted, passwords, showAddForm, searchQuery, selectedPassword,
                   newPassword, draftRef, async, store, hist>>

\* The required inputs of the form hold a value, so the form submits.
FormValid ==
    /\ newPassword.name # EmptyStr
    /\ newPassword.username # EmptyStr
    /\ newPassword.password # EmptyStr

\* addPassword() up to its await: the add_password request leaves.
SubmitAddForm ==
    /\ showAddForm
    /\ FormValid
    /\ CanIssue
    /\ tasks' = With(nextId + 1,
                     Call("add", EmptyStr, 0, "add_password",
                          AddArgs(newPassword), 0))
    /\ nextId' = nextId + 1
    /\ UNCHANGED lastEvent
    /\ UNCHANGED <<view, nextSeq, store, hist>>

\* Mutant: the reset leaves the password field out.
DraftAfterAddKeepsPassword == [EmptyEntry EXCEPT !.password = newPassword.password]

\* The draft and the add-workflow once add_password resolved.
DraftAfterAdd == EmptyEntry

FormAfterAdd == FALSE

\* Mutant: the new entry is put into the collection before the reload.
AddResolvedOptimistic(id) ==
    /\ Replied(id, "add_password", TRUE)
    /\ newPassword' = DraftAfterAdd
    /\ draftRef' = draftRef + 1
    /\ showAddForm' = FormAfterAdd
    /\ passwords' = Append(passwords, tasks[id].args)
    /\ IssueList(id, "add", EmptyStr)
    /\ Event("AddResolved", id)
    /\ UNCHANGED <<mounted, searchQuery, selectedPassword, errorMessage,
                   nextId, store, hist>>

\* Mutant: the reload after a successful add is left out.
AddResolvedNoReload(id) ==
    /\ Replied(id, "add_password", TRUE)
    /\ newPassword' = DraftAfterAdd
    /\ draftRef' = draftRef + 1
    /\ showAddForm' = FormAfterAdd
    /\ tasks' = Without(id)
    /\ Event("AddResolved", id)
    /\ UNCHANGED <<mounted, passwords, searchQuery, selectedPassword, errorMessage,
                   nextId, nextSeq, store, hist>>

\* addPassword(): add_password resolved; runs to the await in loadPasswords().
AddResolved(id) ==
    /\ Replied(id, "add_password", TRUE)
    /\ newPassword' = DraftAfterAdd
    /\ draftRef' = draftRef + 1
    /\ showAddForm' = FormAfterAdd
    /\ IssueList(id, "add", EmptyStr)
    /\ Event("AddResolved", id)
    /\ UNCHANGED <<mounted, passwords, searchQuery, selectedPassword, errorMessage,
                   nextId, store, hist>>

\* Mutant: the form is reset whether or not the add succeeded.
AddRejectedResets(id) ==
    /\ Replied(id, "add_password", FALSE)
    /\ errorMessage' = AddError(tasks[id].val)
    /\ newPassword' = EmptyEntry
    /\ draftRef' = draftRef + 1
    /\ showAddForm' = FALSE
    /\ tasks' = Without(id)
    /\ Event("AddRejected", id)
    /\ UNCHANGED <<mounted, passwords, searchQuery, selectedPassword,
                   nextId, nextSeq, store, hist>>

\* addPassword(): add_password rejected.
AddRejected(id) ==
    /\ Replied(id, "add_password", FALSE)
    /\ errorMessage' = AddError(tasks[id].val)
    /\ tasks' = Without(id)
    /\ Event("AddRejected", id)
    /\ UNCHANGED <<mounted, passwords, showAddForm, searchQuery, selectedPassword,
                   newPassword, draftRef, nextId, nextSeq, store, hist>>

\* Mutant: the request does not carry the name.
DeleteArgsNoName(name) == [name |-> EmptyStr]

\* The arguments of delete_password.
DeleteArgs(name) == [name |-> name]

\* Mutant: the request leaves whatever the answer to confirm() is.
ClickDeleteUnconfirmed(i, confirmed) ==
    /\ i \in 1..Len(getFilteredPasswords)
    /\ CanIssue
    /\ tasks' = With(nextId + 1,
                     Call("delete", getFilteredPasswords[i].name, 0,
                          "delete_password",
                          DeleteArgs(getFilteredPasswords[i].name), 0))
    /\ nextId' = nextId + 1
    /\ IF confirmed
       THEN UNCHANGED lastEvent
       ELSE lastEvent' = [op |-> "DeleteDeclined", id |-> 0,
                          name |-> EmptyStr, hit |-> FALSE]
    /\ UNCHANGED <<view, nextSeq, store, hist>>

\* The delete button of a rendered item; confirmed is the answer to confirm().
\* History keeps that the user declined.
ClickDelete(i, confirmed) ==
    /\ i \in 1..Len(getFilteredPasswords)
    /\ IF confirmed
       THEN /\ CanIssue
            /\ tasks' = With(nextId + 1,
                             Call("delete", getFilteredPasswords[i].name, 0,
                                  "delete_password",
                                  DeleteArgs(getFilteredPasswords[i].name), 0))
            /\ nextId' = nextId + 1
            /\ UNCHANGED lastEvent
       ELSE /\ UNCHANGED <<tasks, nextId>>
            /\ lastEvent' = [op |-> "DeleteDeclined", id |-> 0,
                             name |-> EmptyStr, hit |-> FALSE]
    /\ UNCHANGED <<view, nextSeq, store, hist>>

\* deletePassword(): delete_password resolved; runs to the await in loadPasswords().
DeleteResolved(id) ==
    /\ Replied(id, "delete_password", TRUE)
    /\ tasks' = With(id, [Call("delete", tasks[id].name, 0, "get_passwords",
                                << >>, nextSeq + 1)
                           EXCEPT !.readd = tasks[id].readd])
    /\ nextSeq' = nextSeq + 1
    /\ deletedSince' = deletedSince \cup {tasks[id].name}
    /\ Event("DeleteResolved", id)
    /\ UNCHANGED <<view, nextId, store, lastLoad, maxSeqDone, listed>>

\* Mutant: the selection is cleared whether or not the delete succeeded.
DeleteRejectedClears(id) ==
    /\ Replied(id, "delete_password", FALSE)
    /\ errorMessage' = DeleteError(tasks[id].val)
    /\ selectedPassword' = SelectionAfterDelete(tasks[id].name)
    /\ tasks' = Without(id)
    /\ Event("DeleteRejected", id)
    /\ UNCHANGED <<mounted, passwords, showAddForm, searchQuery,
                   newPassword, draftRef, nextId, nextSeq, store, hist>>

\* Mutant: a rejected delete is sent again.
DeleteRejectedRetries(id) ==
    /\ Replied(id, "delete_password", FALSE)
    /\ errorMessage' = DeleteError(tasks[id].val)
    /\ tasks' = [tasks EXCEPT ![id].stage = "sent"]
    /\ Event("DeleteRejected", id)
    /\ UNCHANGED <<mounted, passwords, showAddForm, searchQuery, selectedPassword,
                   newPassword, draftRef, nextId, nextSeq, store, hist>>

\* deletePassword(): delete_password rejected.
DeleteRejected(id) ==
    /\ Replied(id, "delete_password", FALSE)
    /\ errorMessage' = DeleteError(tasks[id].val)
    /\ tasks' = Without(id)
    /\ Event("DeleteRejected", id)
    /\ UNCHANGED <<mounted, passwords, showAddForm, searchQuery, selectedPassword,
                   newPassword, draftRef, nextId, nextSeq, store, hist>>

passwordLength == 16

\* generatePassword() up to its await: the assignment target is the draft
\* object of this moment.
ClickGenerate ==
    /\ showAddForm
    /\ CanIssue
    /\ tasks' = With(nextId + 1,
                     Call("generate", EmptyStr, draftRef, "generate_password",
                          [length |-> passwordLength], 0))
    /\ nextId' = nextId + 1
    /\ UNCHANGED lastEvent
    /\ UNCHANGED <<view, nextSeq, store, hist>>

\* Mutant: the generated password is assigned to the draft of the moment the
\* reply is handled.
DraftAfterGenerateLate(ref, val) == [newPassword EXCEPT !.password = val]

\* Mutant: the generated password is assigned into a fresh draft.
DraftAfterGenerateFresh(ref, val) ==
    IF ref = draftRef THEN [EmptyEntry EXCEPT !.password = val]
    ELSE newPassword

\* The current draft after the generated password is assigned to the object ref.
DraftAfterGenerate(ref, val) ==
    IF ref = draftRef THEN [newPassword EXCEPT !.password = val]
    ELSE newPassword

\* generatePassword(): generate_password resolved.
GenerateResolved(id) ==
    /\ Replied(id, "generate_password", TRUE)
    /\ newPassword' = DraftAfterGenerate(tasks[id].ref, tasks[id].val)
    /\ tasks' = Without(id)
    /\ Event("GenerateResolved", id)
    /\ UNCHANGED <<mounted, passwords, showAddForm, searchQuery, selectedPassword,
                   errorMessage, draftRef, nextId, nextSeq, store, hist>>

\* generatePassword(): generate_password rejected.
GenerateRejected(id) ==
    /\ Replied(id, "generate_password", FALSE)
    /\ errorMessage' = GenerateError(tasks[id].val)
    /\ tasks' = Without(id)
    /\ Event("GenerateRejected", id)
    /\ UNCHANGED <<mounted, passwords, showAddForm, searchQuery, selectedPassword,
                   newPassword, draftRef, nextId, nextSeq, store, hist>>

-----------------------------------------------------------------------------
(* Steps of the store *)

Sent(id, cmd) ==
    /\ id \in Live
    /\ tasks[id].cmd = cmd
    /\ tasks[id].stage = "sent"

Reply(id, ok, val) ==
    tasks' = [tasks EXCEPT ![id].stage = "replied", ![id].ok = ok, ![id].val = val]

StoreList(id) ==
    /\ Sent(id, "get_passwords")
    /\ Reply(id, TRUE, store)
    /\ listed' = listed \cup {store}
    /\ UNCHANGED lastEvent
    /\ UNCHANGED <<view, nextId, nextSeq, store, lastLoad, maxSeqDone, deletedSince>>

\* A delete of name that the store has carried out and whose operation is
\* not over.
DeletedAtStore(i, name) ==
    /\ tasks[i].op = "delete"
    /\ tasks[i].name = name
    /\ (tasks[i].cmd = "get_passwords" \/ (tasks[i].stage = "replied" /\ tasks[i].ok))

StoreAdd(id) ==
    /\ Sent(id, "add_password")
    /\ tasks' = [i \in Live |->
                   IF i = id
                   THEN [tasks[i] EXCEPT !.stage = "replied", !.ok = TRUE]
                   ELSE IF DeletedAtStore(i, tasks[id].args.name)
                        THEN [tasks[i] EXCEPT !.readd = TRUE]
                        ELSE tasks[i]]
    /\ store' = StoreAfterAdd(store, tasks[id].args)
    /\ UNCHANGED lastEvent
    /\ UNCHANGED <<view, nextId, nextSeq, hist>>

StoreDelete(id) ==
    /\ Sent(id, "delete_password")
    /\ Reply(id, TRUE, << >>)
    /\ store' = StoreAfterDelete(store, tasks[id].args.name)
    /\ UNCHANGED lastEvent
    /\ UNCHANGED <<view, nextId, nextSeq, hist>>

StoreGenerate(id, pw) ==
    /\ Sent(id, "generate_password")
    /\ Reply(id, TRUE, pw)
    /\ UNCHANGED lastEvent
    /\ UNCHANGED <<view, nextId, nextSeq, store, hist>>

\* Any call may fail, with a description of the failure.
StoreFail(id, error) ==
    /\ id \in Live
    /\ tasks[id].stage = "sent"
    /\ Reply(id, FALSE, error)
    /\ UNCHANGED lastEvent
    /\ UNCHANGED <<view, nextId, nextSeq, store, hist>>

-----------------------------------------------------------------------------

Ids == 1..MaxOps

\* The search input (SetSearchQuery) only narrows the items that are rendered
\* and can be clicked; with the query left empty every entry of the collection
\* is rendered, so the behaviours below leave it empty.
Next ==
    \/ Mount
    \/ OpenAddForm
    \/ CancelAddForm
    \/ \E f \in RequiredFields : \E v \in FieldValues(f) : EditDraft(f, v)
    \/ \E i \in 1..Len(passwords) : SelectPassword(i)
    \/ \E i \in 1..Len(passwords) : \E c \in BOOLEAN : ClickDelete(i, c)
    \/ DismissError
    \/ SubmitAddForm
    \/ ClickGenerate
    \/ \E id \in Ids : LoadResolved(id)
    \/ \E id \in Ids : LoadRejected(id)
    \/ \E id \in Ids : AddResolved(id)
    \/ \E id \in Ids : AddRejected(id)
    \/ \E id \in Ids : DeleteResolved(id)
    \/ \E id \in Ids : DeleteRejected(id)
    \/ \E id \in Ids : GenerateResolved(id)
    \/ \E id \in Ids : GenerateRejected(id)
    \/ \E id \in Ids : StoreList(id)
    \/ \E id \in Ids : StoreAdd(id)
    \/ \E id \in Ids : StoreDelete(id)
    \/ \E id \in Ids : \E pw \in Generated : StoreGenerate(id, pw)
    \/ \E id \in Ids : \E error \in Details : StoreFail(id, error)

Spec == Init /\ [][Next]_vars

-----------------------------------------------------------------------------
(* The behaviours in which no call to the store fails *)

NextNoFailure ==
    \/ Mount
    \/ OpenAddForm
    \/ CancelAddForm
    \/ \E f \in RequiredFields : \E v \in FieldValues(f) : EditDraft(f, v)
    \/ \E i \in 1..Len(passwords) : SelectPassword(i)
    \/ \E i \in 1..Len(passwords) : \E c \in BOOLEAN : ClickDelete(i, c)
    \/ SubmitAddForm
    \/ ClickGenerate
    \/ \E id \in Ids : LoadResolved(id)
    \/ \E id \in Ids : AddResolved(id)
    \/ \E id \in Ids : DeleteResolved(id)
    \/ \E id \in Ids : GenerateResolved(id)
    \/ \E id \in Ids : StoreList(id)
    \/ \E id \in Ids : StoreAdd(id)
    \/ \E id \in Ids : StoreDelete(id)
    \/ \E id \in Ids : \E pw \in Generated : StoreGenerate(id, pw)

SpecNoFailure == Init /\ [][NextNoFailure]_vars

-----------------------------------------------------------------------------
(* Properties *)

NoLoadInFlight == \A id \in Live : tasks[id].cmd # "get_passwords"

\* Every operation issued is over.
AtRest == mounted /\ Live = {}

Names(c) == {c[i].name : i \in 1..Len(c)}

\* A continuation ran in this step: op, of the operation lastEvent'.id (or the
\* user declined a confirmation: op is DeleteDeclined, of no operation).
Ran(op) == lastEvent' # lastEvent /\ lastEvent'.op = op

\* C1: once no load is in flight, the visible collection is the response of
\* the load that resolved last, whatever the order the loads were issued in.
LastCompletionWins ==
    (NoLoadInFlight /\ lastLoad # None) => passwords = TheValue(lastLoad).val

\* C1 witness: the load that resolved last was issued before one that resolved
\* earlier, its response is what is shown, and it is not what the store holds.
LastCompletionWinsWitness ==
    /\ NoLoadInFlight
    /\ lastLoad # None
    /\ TheValue(lastLoad).seq < maxSeqDone
    /\ passwords = TheValue(lastLoad).val
    /\ passwords # store

\* C2 as claimed: once every operation is over and no call has failed, the
\* local collection is the store's contents.
LocalIsStoreAtRest == AtRest => passwords = store

\* C2 amended: once every operation is over and no call has failed, the local
\* collection is the store's contents provided the load that resolved last is
\* the load that was issued last.
LocalIsStoreWhenNewestLast ==
    (AtRest /\ lastLoad # None /\ TheValue(lastLoad).seq = nextSeq)
        => passwords = store

\* C2 witness: two adds or deletes and their reloads are over besides the first
\* load, the newest load resolved last, and the store has changed since the
\* view was constructed.
LocalIsStoreWitness ==
    /\ AtRest
    /\ nextSeq >= 3
    /\ TheValue(lastLoad).seq = nextSeq
    /\ passwords = store
    /\ store \notin InitialStores

\* C3 as claimed: the selection is empty or names an entry of the local
\* collection.
SelectionInCollection ==
    selectedPassword = None \/ TheValue(selectedPassword).name \in Names(passwords)

\* The operation whose continuation ran in this step, as it was before.
Ran_t == tasks[lastEvent'.id]

\* C4: when add_password resolves, the draft is reset to the empty entry and
\* the add form is closed, whatever else is in flight; a generate issued before
\* the reset does not fill the draft again when it resolves.
AddSuccessResetsDraft ==
    [][/\ Ran("AddResolved") => (newPassword' = EmptyEntry /\ showAddForm' = FALSE)
       /\ (Ran("GenerateResolved") /\ Ran_t.ref < draftRef)
            => newPassword' = newPassword]_vars

\* C4 witness: an add has resolved while a generate issued before it was in
\* flight; the draft is empty and the form closed, and the add is in its reload.
AddSuccessWitness ==
    /\ lastEvent.op = "AddResolved"
    /\ lastEvent.id \in Live
    /\ tasks[lastEvent.id].cmd = "get_passwords"
    /\ \E id \in Live : tasks[id].op = "generate" /\ tasks[id].ref < draftRef
    /\ newPassword = EmptyEntry
    /\ ~showAddForm

\* C5: when add_password is rejected, the draft, the add form and the
\* collection stay as they are and the error slot holds the add message with
\* the failure's description.
AddFailureKeepsDraft ==
    [][Ran("AddRejected") =>
          /\ newPassword' = newPassword
          /\ showAddForm' = showAddForm
          /\ passwords' = passwords
          /\ errorMessage' = AddError(Ran_t.val)]_vars

\* C5 witness: an add was rejected; the form is open, the draft still holds the
\* required fields, and the message is shown.
AddFailureWitness ==
    /\ lastEvent.op = "AddRejected"
    /\ showAddForm
    /\ FormValid
    /\ errorMessage = AddError("e1")

\* C6: when deletePassword(name) finishes after a successful delete, with its
\* reload resolved or rejected, the selection does not name name; and the
\* selection is cleared by no other step.
DeleteSuccessClearsSelection ==
    [][/\ ((Ran("LoadResolved") \/ Ran("LoadRejected")) /\ Ran_t.op = "delete")
            => /\ Selected(Ran_t.name) => selectedPassword' = None
               /\ selectedPassword' = None
                    \/ TheValue(selectedPassword').name # Ran_t.name
       /\ (selectedPassword # None /\ selectedPassword' = None)
            => /\ Ran("LoadResolved") \/ Ran("LoadRejected")
               /\ Ran_t.op = "delete"
               /\ Selected(Ran_t.name)]_vars

\* C6 witness: the reload of a successful delete was rejected while the deleted
\* entry was selected, and the selection is empty.
DeleteSuccessWitness ==
    /\ lastEvent.op = "LoadRejected"
    /\ lastEvent.hit
    /\ selectedPassword = None

\* C7: when delete_password is rejected, the error slot holds the delete
\* message and the collection and the selection stay as they are.
DeleteFailureKeepsSelection ==
    [][Ran("DeleteRejected") =>
          /\ errorMessage' = DeleteError(Ran_t.val)
          /\ passwords' = passwords
          /\ selectedPassword' = selectedPassword]_vars

\* C7 witness: the delete of the selected entry was rejected and the entry is
\* still selected.
DeleteFailureWitness ==
    /\ lastEvent.op = "DeleteRejected"
    /\ lastEvent.hit
    /\ Selected(lastEvent.name)
    /\ errorMessage = DeleteError("e1")

\* C8 as claimed: the first collection loaded after a delete of name has
\* succeeded holds no entry called name.
DeletedAbsentFromNextLoad ==
    [][Ran("LoadResolved") => deletedSince \cap Names(passwords') = {}]_vars

\* C8 amended: the collection loaded by the reload of a successful delete of
\* name holds no entry called name, unless the store added an entry of that
\* name after it carried out the delete.
DeletedAbsentFromOwnReload ==
    [][(Ran("LoadResolved") /\ Ran_t.op = "delete" /\ ~Ran_t.readd)
          => Ran_t.name \notin Names(passwords')]_vars

\* C8 witness: the reload of a successful delete resolved while another
\* operation was in flight, and the deleted name is not in the collection.
DeletedAbsentWitness ==
    /\ lastEvent.op = "LoadResolved"
    /\ lastEvent.name # EmptyStr
    /\ lastEvent.name \notin Names(passwords)
    /\ Live # {}

\* C9: the collection is the initial empty list or a complete response of
\* get_passwords; when get_passwords is rejected the collection stays as it is
\* and the error slot holds the load message with the failure's description.
LoadFailureKeepsCollection ==
    /\ [](passwords = << >> \/ passwords \in listed)
    /\ [][Ran("LoadRejected") =>
             /\ passwords' = passwords
             /\ errorMessage' = LoadError(Ran_t.val)]_vars

\* C9 witness: a load was rejected after another had filled the collection,
\* which is still shown, and is not what the store holds now.
LoadFailureWitness ==
    /\ lastEvent.op = "LoadRejected"
    /\ passwords # << >>
    /\ passwords # store
    /\ errorMessage = LoadError("e1")

\* C10: the collection changes only when a get_passwords resolves, and then to
\* the whole response; addPassword and deletePassword never change it
\* themselves.
CollectionChangesOnlyOnLoad ==
    [][passwords' # passwords =>
          (Ran("LoadResolved") /\ passwords' = Ran_t.val)]_vars

\* C10 witness: an add has succeeded and is in its reload; the store holds an
\* entry the collection does not show.
NoOptimisticInsertWitness ==
    /\ lastEvent.op = "AddResolved"
    /\ lastEvent.id \in Live
    /\ tasks[lastEvent.id].cmd = "get_passwords"
    /\ \E n \in Names(store) : n \notin Names(passwords)

-----------------------------------------------------------------------------
(* generatePassword *)

\* The fields of the draft other than f are what they were.
OtherFieldsKept(f) == \A g \in Fields \ {f} : newPassword'[g] = newPassword[g]

\* C11 as claimed: when generate_password resolves, the password of the draft
\* becomes the returned string.
GenerateSetsDraftPassword ==
    [][Ran("GenerateResolved") => newPassword'.password = Ran_t.val]_vars

\* C11 amended: when generate_password resolves, the password of the draft
\* becomes the returned string (so the string of the generate that resolved
\* last), unless the draft was reset by a successful add after the generate
\* was issued, and then the draft stays as it is; the other draft fields, the
\* collection and the selection are unchanged.  When generate_password is
\* rejected the error slot holds the generate message and the draft stays as
\* it is.
GenerateWritesPasswordOnly ==
    [][/\ Ran("GenerateResolved") =>
             /\ Ran_t.ref = draftRef => newPassword'.password = Ran_t.val
             /\ Ran_t.ref # draftRef => newPassword'.password = newPassword.password
             /\ OtherFieldsKept("password")
             /\ passwords' = passwords
             /\ selectedPassword' = selectedPassword
       /\ Ran("GenerateRejected") =>
             /\ errorMessage' = GenerateError(Ran_t.val)
             /\ newPassword' = newPassword
             /\ passwords' = passwords
             /\ selectedPassword' = selectedPassword]_vars

\* C11 witness: of two generates issued for the same draft one has resolved
\* and its string is the draft's password, next to a name the user typed; the
\* other has been answered with a different string and has not resumed yet.
GenerateTwiceWitness ==
    /\ lastEvent.op = "GenerateResolved"
    /\ newPassword.password = <<"g">>
    /\ newPassword.name # EmptyStr
    /\ \E id \in Live :
          /\ tasks[id].op = "generate"
          /\ tasks[id].ref = draftRef
          /\ tasks[id].stage = "replied"
          /\ tasks[id].ok
          /\ tasks[id].val # newPassword.password

-----------------------------------------------------------------------------
(* Cancelling the add form *)

\* C12: when the add form is closed by its cancel button (the form closes in
\* a step that is no continuation of an operation), every field of the draft
\* is empty afterwards.
CancelDiscardsDraft ==
    [][(showAddForm /\ ~showAddForm' /\ lastEvent' = lastEvent)
          => newPassword' = EmptyEntry]_vars

-----------------------------------------------------------------------------
(* copyToClipboard *)

CopyError(error) == "copy failed: " \o error

\* The copy buttons of the details pane: the username and the password of
\* the selected entry.
CopyFields == {"username", "password"}

\* copyToClipboard(text): navigator.clipboard.writeText(text) is started and
\* the handler returns; the promise is settled by the browser, not the store.
ClickCopy(f) ==
    /\ selectedPassword # None
    /\ CanIssue
    /\ tasks' = With(nextId + 1,
                     [Call("copy", EmptyStr, 0, "writeText",
                           [text |-> TheValue(selectedPassword)[f]], 0)
                        EXCEPT !.stage = "writing"])
    /\ nextId' = nextId + 1
    /\ UNCHANGED lastEvent
    /\ UNCHANGED <<view, nextSeq, store, hist>>

\* The browser settles writeText: written, or refused with a description.
ClipboardSettles(id, ok, error) ==
    /\ id \in Live
    /\ tasks[id].cmd = "writeText"
    /\ tasks[id].stage = "writing"
    /\ Reply(id, ok, IF ok THEN "" ELSE error)
    /\ UNCHANGED lastEvent
    /\ UNCHANGED <<view, nextId, nextSeq, store, hist>>

\* The then callback of writeText: nothing is done on success.
CopyResolved(id) ==
    /\ Replied(id, "writeText", TRUE)
    /\ tasks' = Without(id)
    /\ Event("CopyResolved", id)
    /\ UNCHANGED <<view, nextId, nextSeq, store, hist>>

\* Mutant: a refused copy is dropped without a message.
CopyRejectedSilent(id) ==
    /\ Replied(id, "writeText", FALSE)
    /\ tasks' = Without(id)
    /\ Event("CopyRejected", id)
    /\ UNCHANGED <<view, nextId, nextSeq, store, hist>>

\* The catch callback of writeText.
CopyRejected(id) ==
    /\ Replied(id, "writeText", FALSE)
    /\ errorMessage' = CopyError(tasks[id].val)
    /\ tasks' = Without(id)
    /\ Event("CopyRejected", id)
    /\ UNCHANGED <<mounted, passwords, showAddForm, searchQuery, selectedPassword,
                   newPassword, draftRef, nextId, nextSeq, store, hist>>

\* The behaviours of the view with the copy buttons.
NextCopy ==
    \/ Next
    \/ \E f \in CopyFields : ClickCopy(f)
    \/ \E id \in Ids : \E ok \in BOOLEAN : \E error \in Details :
          ClipboardSettles(id, ok, error)
    \/ \E id \in Ids : CopyResolved(id)
    \/ \E id \in Ids : CopyRejected(id)

SpecCopy == Init /\ [][NextCopy]_vars

\* The continuations that run when an operation has failed, and the message
\* each puts into the error slot.
Failures == {"LoadRejected", "AddRejected", "DeleteRejected",
             "GenerateRejected", "CopyRejected"}

FailureMessage(op, error) ==
    CASE op = "LoadRejected" -> LoadError(error)
      [] op = "AddRejected" -> AddError(error)
      [] op = "DeleteRejected" -> DeleteError(error)
      [] op = "GenerateRejected" -> GenerateError(error)
      [] op = "CopyRejected" -> CopyError(error)

\* C13: the error slot is one string.  Every failed list, add, delete, generate
\* or copy puts its own message there, whatever was there before, so the slot
\* shows the failure that completed last; the failed operation ends there, and
\* a delete whose reload failed still goes on to look at the selection.  No
\* other continuation changes the slot, and the only other change is the
\* dismiss, which empties it.
ErrorSlotShowsLastFailure ==
    /\ [](errorMessage \in STRING)
    /\ [][/\ \A op \in Failures :
               Ran(op) => /\ errorMessage' = FailureMessage(op, Ran_t.val)
                          /\ lastEvent'.id \notin DOMAIN tasks'
          /\ (Ran("LoadRejected") /\ Ran_t.op = "delete" /\ Selected(Ran_t.name))
               => selectedPassword' = None
          /\ (lastEvent' # lastEvent /\ lastEvent'.op \notin Failures)
               => errorMessage' = errorMessage
          /\ (lastEvent' = lastEvent /\ errorMessage' # errorMessage)
               => (errorMessage # "" /\ errorMessage' = "")]_vars

\* C13 witness: the slot shows the message of a failed copy while a failed
\* request of the store is about to put its own message there.
ErrorOverwriteWitness ==
    /\ errorMessage = CopyError("e1")
    /\ lastEvent.op = "CopyRejected"
    /\ \E id \in Live :
          /\ tasks[id].op # "copy"
          /\ tasks[id].stage = "replied"
          /\ ~tasks[id].ok

-----------------------------------------------------------------------------
(* getFilteredPasswords: the view after its first load, the search input and *)
(* the list that is rendered from the filtered collection                    *)

MaxLen == 3

\* Entries the store may hold: letters of both cases in the name, the
\* username and the url, and one whose notes alone hold the letters a and b.
EntryAB ==
    [name |-> <<"a", "B">>, username |-> <<"u">>, password |-> <<"p">>,
     url |-> None, notes |-> None]
EntryB ==
    [name |-> <<"b">>, username |-> <<"A", "b">>, password |-> <<"p">>,
     url |-> None, notes |-> Some(<<"n">>)]
EntryW ==
    [name |-> <<"w">>, username |-> <<"u">>, password |-> <<"g">>,
     url |-> Some(<<"B", "a">>), notes |-> None]
EntryN ==
    [name |-> <<"n">>, username |-> <<"p">>, password |-> <<"p">>,
     url |-> None, notes |-> Some(<<"a", "b">>)]

FilterEntries == {EntryAB, EntryB, EntryW, EntryN}

\* Collections of at most MaxLen entries with different names, in any order.
Collections ==
    UNION {{c \in [1..n -> FilterEntries] :
               \A i, j \in 1..n : i # j => c[i].name # c[j].name} : n \in 0..MaxLen}

\* The view once the load of onMounted has resolved with the collection the
\* store holds, and a search query typed.
InitLoaded ==
    /\ mounted = TRUE
    /\ passwords \in Collections
    /\ showAddForm = FALSE
    /\ searchQuery \in Queries
    /\ selectedPassword = None
    /\ errorMessage = ""
    /\ newPassword = EmptyEntry
    /\ draftRef = 0
    /\ tasks = << >>
    /\ nextId = 1
    /\ nextSeq = 1
    /\ store = passwords
    /\ lastLoad = Some([seq |-> 1, val |-> passwords])
    /\ maxSeqDone = 1
    /\ listed = {passwords}
    /\ deletedSince = {}
    /\ lastEvent = [op |-> "LoadResolved", id |-> 1, name |-> EmptyStr, hit |-> FALSE]

NextFilter ==
    \/ \E q \in Queries : SetSearchQuery(q)
    \/ \E i \in 1..Len(passwords) : SelectPassword(i)

SpecFilter == InitLoaded /\ [][NextFilter]_vars

\* The same letter, in either case.
SameLetter(c, d) == c = d \/ {c, d} = {"a", "A"} \/ {c, d} = {"b", "B"}

\* q occurs in s at some offset, letter by letter, whatever the case.
ContainsIgnoringCase(s, q) ==
    \E k \in 0..(Len(s) - Len(q)) :
        \A j \in 1..Len(q) : SameLetter(s[k + j], q[j])

\* The name, the username or the url of p, when there is one, contains q.
Hit(p, q) ==
    \/ ContainsIgnoringCase(p.name, q)
    \/ ContainsIgnoringCase(p.username, q)
    \/ \E url \in p.url : ContainsIgnoringCase(url, q)

\* The positions of the collection whose entry is a hit for q, and the k-th
\* of them from the front.
HitPositions(q) == {i \in 1..Len(passwords) : Hit(passwords[i], q)}

HitPosition(q, k) ==
    CHOOSE i \in HitPositions(q) :
        Cardinality({j \in HitPositions(q) : j < i}) = k - 1

\* C14: with the empty query the filtered list is the collection itself; with
\* any other query it holds, in the order of the collection, exactly the
\* entries whose name, username or url contains the query whatever the case of
\* the letters, so an entry whose notes alone contain it is left out; typing a
\* query and rendering the list leave the collection as it is.
FilterSelectsHits ==
    /\ [](searchQuery = EmptyStr => getFilteredPasswords = passwords)
    /\ [](searchQuery # EmptyStr =>
            /\ Len(getFilteredPasswords) = Cardinality(HitPositions(searchQuery))
            /\ \A k \in 1..Len(getFilteredPasswords) :
                  getFilteredPasswords[k] = passwords[HitPosition(searchQuery, k)])
    /\ [][passwords' = passwords]_vars

\* C14 witness: the query ab is typed in upper case; the collection holds the
\* entry with ab in its notes only, in front of one with aB in its name and
\* one with Ab in its username; the filtered list is the latter two, in that
\* order, and the user has selected one of them from it.
FilterWitness ==
    /\ searchQuery = <<"A", "B">>
    /\ passwords = <<EntryN, EntryAB, EntryB>>
    /\ getFilteredPasswords = <<EntryAB, EntryB>>
    /\ selectedPassword = Some(EntryB)

\* Two queries of the same letters, whatever their case.
DiffersOnlyInCase(q, r) ==
    /\ Len(q) = Len(r)
    /\ \A j \in 1..Len(q) : SameLetter(q[j], r[j])

\* C15: filtering the filtered list by the same query again gives the
\* filtered list, and every query that differs from the typed one only in the
\* case of its letters gives the same filtered list.
FilterIdempotentAndCaseBlind ==
    /\ Filtered(getFilteredPasswords, searchQuery) = getFilteredPasswords
    /\ \A q \in Queries :
          DiffersOnlyInCase(q, searchQuery)
             => Filtered(passwords, q) = getFilteredPasswords

\* C15 witness: the typed query aB has the letters of the queries ab and AB;
\* it keeps some entries of the collection and drops others.
FilterCaseWitness ==
    /\ searchQuery = <<"a", "B">>
    /\ \E q \in Queries \ {searchQuery} : DiffersOnlyInCase(q, searchQuery)
    /\ getFilteredPasswords # << >>
    /\ Len(getFilteredPasswords) < Len(passwords)

-----------------------------------------------------------------------------
(* addPassword: the add form open after the first load, every field typed *)
(* into, the requests it submits and the store rejecting them             *)

\* The drafts the form can hold: every field empty or typed.
Drafts ==
    [name : {EmptyStr} \cup FieldValues("name"),
     username : {EmptyStr} \cup FieldValues("username"),
     password : {EmptyStr} \cup FieldValues("password"),
     url : {EmptyStr} \cup FieldValues("url"),
     notes : {EmptyStr} \cup FieldValues("notes")]

\* The view once the load of onMounted has resolved with an empty store, the
\* add form opened and a draft typed.
InitForm ==
    /\ mounted = TRUE
    /\ passwords = << >>
    /\ showAddForm = TRUE
    /\ searchQuery = EmptyStr
    /\ selectedPassword = None
    /\ errorMessage = ""
    /\ newPassword \in Drafts
    /\ draftRef = 0
    /\ tasks = << >>
    /\ nextId = 1
    /\ nextSeq = 1
    /\ store = << >>
    /\ lastLoad = Some([seq |-> 1, val |-> << >>])
    /\ maxSeqDone = 1
    /\ listed = {<< >>}
    /\ deletedSince = {}
    /\ lastEvent = [op |-> "LoadResolved", id |-> 1, name |-> EmptyStr, hit |-> FALSE]

NextForm ==
    \/ OpenAddForm
    \/ CancelAddForm
    \/ \E f \in Fields : \E v \in FieldValues(f) : EditDraft(f, v)
    \/ SubmitAddForm
    \/ \E id \in Ids : \E error \in Details : StoreFail(id, error)
    \/ \E id \in Ids : AddRejected(id)

SpecForm == InitForm /\ [][NextForm]_vars

\* The add_password requests that leave in this step.
NewAddRequests ==
    {id \in DOMAIN tasks' \ DOMAIN tasks : tasks'[id].cmd = "add_password"}

\* C16: the add_password request carries the name, the username and the
\* password of the draft at submission; its url and its notes are absent when
\* the draft's field is the empty string and the draft's value otherwise, and
\* no request ever carries an empty string for either.
AddRequestCarriesDraft ==
    /\ [](\A id \in DOMAIN tasks :
             tasks[id].cmd = "add_password"
                => Some(EmptyStr) \notin {tasks[id].args.url, tasks[id].args.notes})
    /\ [][\A id \in NewAddRequests :
             LET sent == tasks'[id].args
             IN  /\ sent.name = newPassword.name
                 /\ sent.username = newPassword.username
                 /\ sent.password = newPassword.password
                 /\ \A f \in {"url", "notes"} :
                       /\ newPassword[f] = EmptyStr => sent[f] = None
                       /\ newPassword[f] # EmptyStr => sent[f] = {newPassword[f]}]_vars

\* C16 witness: two requests have left, one from a draft with notes and no
\* url, the other after the url was typed as well.
AddRequestWitness ==
    \E i, j \in DOMAIN tasks :
        /\ tasks[i].cmd = "add_password"
        /\ tasks[j].cmd = "add_password"
        /\ tasks[i].args.url = None
        /\ tasks[i].args.notes = Some(<<"n">>)
        /\ tasks[j].args.url = Some(<<"w">>)

-----------------------------------------------------------------------------
(* The course of addPassword and deletePassword *)

\* The operations other than the one whose continuation runs stay as they are.
OthersKept == \A i \in DOMAIN tasks \ {lastEvent'.id} : /\ i \in DOMAIN tasks'
                                                        /\ tasks'[i] = tasks[i]

\* C17: an add or a delete resumes only on the store's reply to its request.
\* Acknowledged, it sends exactly one get_passwords and waits for it, and is
\* over when that one is answered; rejected, it is over at once, with no
\* get_passwords and no request sent again.  A get_passwords leaves only then
\* and at mount.
MutationThenOneReload ==
    [][/\ \A op \in {"AddResolved", "DeleteResolved", "AddRejected", "DeleteRejected"} :
             Ran(op) => /\ Ran_t.cmd \in {"add_password", "delete_password"}
                        /\ Ran_t.stage = "replied"
                        /\ Ran_t.ok = (op \in {"AddResolved", "DeleteResolved"})
                        /\ OthersKept
       /\ (Ran("AddResolved") \/ Ran("DeleteResolved")) =>
             /\ nextSeq' = nextSeq + 1
             /\ DOMAIN tasks' = DOMAIN tasks
             /\ tasks'[lastEvent'.id].cmd = "get_passwords"
             /\ tasks'[lastEvent'.id].stage = "sent"
             /\ tasks'[lastEvent'.id].seq = nextSeq'
       /\ (Ran("AddRejected") \/ Ran("DeleteRejected")) =>
             /\ nextSeq' = nextSeq
             /\ DOMAIN tasks' = DOMAIN tasks \ {lastEvent'.id}
       /\ (Ran("LoadResolved") \/ Ran("LoadRejected")) =>
             /\ nextSeq' = nextSeq
             /\ DOMAIN tasks' = DOMAIN tasks \ {lastEvent'.id}
             /\ OthersKept
       /\ nextSeq' # nextSeq =>
             \/ Ran("AddResolved")
             \/ Ran("DeleteResolved")
             \/ (~mounted /\ mounted')]_vars

\* C17 witness: after the load of onMounted one add or delete was
\* acknowledged and has reloaded, a delete was rejected after that, and
\* nothing is in flight: two get_passwords have left in all.
OneReloadWitness ==
    /\ lastEvent.op = "DeleteRejected"
    /\ Live = {}
    /\ nextId = 3
    /\ nextSeq = 2

-----------------------------------------------------------------------------
(* The confirmation of deletePassword *)

\* C18: when the user declines the confirmation, no request leaves (neither
\* delete_password nor get_passwords) and the collection, the selection, the
\* draft and the error slot stay as they are.
DeclinedDeleteChangesNothing ==
    [][Ran("DeleteDeclined") =>
          /\ tasks' = tasks
          /\ nextId' = nextId
          /\ nextSeq' = nextSeq
          /\ store' = store
          /\ passwords' = passwords
          /\ selectedPassword' = selectedPassword
          /\ newPassword' = newPassword
          /\ errorMessage' = errorMessage]_vars

\* C18 witness: the user has declined to delete an entry, with an entry
\* selected and a draft typed; the load of onMounted is the only operation
\* there has ever been and the collection is what it loaded.
DeclinedDeleteWitness ==
    /\ lastEvent.op = "DeleteDeclined"
    /\ selectedPassword # None
    /\ newPassword.name # EmptyStr
    /\ nextId = 1
    /\ nextSeq = 1
    /\ Live = {}
    /\ passwords = store
    /\ passwords # << >>

-----------------------------------------------------------------------------
(* The selection across deletePassword *)

\* C19: the selection is looked at when the reload of a successful
\* delete(name) has finished, not before: the acknowledgement of the delete
\* leaves it as it is, and so does the end of the reload unless the selection
\* names name at that moment, however long it has; the reload of any other
\* operation leaves it as it is.
DeleteKeepsOtherSelection ==
    [][/\ Ran("DeleteResolved") => selectedPassword' = selectedPassword
       /\ (Ran("LoadResolved") \/ Ran("LoadRejected")) =>
             selectedPassword' = IF Ran_t.op = "delete" /\ Selected(Ran_t.name)
                                 THEN None
                                 ELSE selectedPassword]_vars

\* C19 witness: the reload of a successful delete has resolved without the
\* deleted name, and an entry of another name is selected still.
OtherSelectionWitness ==
    /\ lastEvent.op = "LoadResolved"
    /\ lastEvent.name # EmptyStr
    /\ ~lastEvent.hit
    /\ lastEvent.name \notin Names(passwords)
    /\ selectedPassword # None
    /\ TheValue(selectedPassword).name # lastEvent.name

-----------------------------------------------------------------------------
(* generatePassword overlapping the reset of the draft *)

\* C20: the draft object is replaced only when an add_password resolves, and
\* then by the empty entry; a generate_password that resolves after the draft
\* object it was issued for has been replaced leaves the current draft as it
\* is, so its password is still empty if nothing was typed since the reset.
StaleGenerateKeepsDraft ==
    [][/\ draftRef' # draftRef =>
             /\ Ran("AddResolved")
             /\ newPassword' = EmptyEntry
       /\ (Ran("GenerateResolved") /\ Ran_t.ref # draftRef) =>
             /\ newPassword' = newPassword
             /\ draftRef' = draftRef
             /\ newPassword = EmptyEntry => newPassword'.password = EmptyStr]_vars

\* C20 witness: an add has reset the draft, a generate_password has resolved
\* after that, and the draft is empty: the user can type a password but not
\* clear it, so the string went to the draft that was replaced.
StaleGenerateWitness ==
    /\ lastEvent.op = "GenerateResolved"
    /\ draftRef > 0
    /\ newPassword = EmptyEntry

====
